---- MODULE Spec2Model ----
(***************************************************************************)
(* Rescan Worker (BEFORE_DOWNLOAD): the handler of src/worker.ts as a      *)
(* state machine.  One invocation of the handler is a process that runs    *)
(* synchronously up to each `await` on the platform HTTP client and is     *)
(* resumed by the response (or rejection) of that call.                    *)
(*                                                                         *)
(* Conventions.  An optional value (a field that may be undefined) is a    *)
(* sequence of length 0 (undefined) or 1 (the value).  The originator      *)
(* strings (user id, realm, client address) are sequences of characters,   *)
(* because the code lower-cases and searches them; the other strings are   *)
(* only compared or tested for emptiness and are plain strings.            *)
(***************************************************************************)
EXTENDS Naturals, Integers, Sequences, FiniteSets, TLC

VARIABLES pc, data, pingOutcome, statusOutcome, reindexOutcome,
          result, rejected, calls, scanner

vars == <<pc, data, pingOutcome, statusOutcome, reindexOutcome,
          result, rejected, calls, scanner>>

\* Number of handler invocations the boundary may make in one behaviour.
NumInvocations == 2

Invocations == 1..NumInvocations

Undefined == <<>>

Some(v) == <<v>>

IsDefined(o) == Len(o) = 1

----------------------------------------------------------------------------
\* JavaScript string operations on character sequences.

UpperChars == <<"A","B","C","D","E","F","G","H","I","J","K","L","M",
                "N","O","P","Q","R","S","T","U","V","W","X","Y","Z">>

LowerChars == <<"a","b","c","d","e","f","g","h","i","j","k","l","m",
                "n","o","p","q","r","s","t","u","v","w","x","y","z">>

LowerChar(c) ==
    IF \E k \in 1..Len(UpperChars) : UpperChars[k] = c
    THEN LowerChars[CHOOSE k \in 1..Len(UpperChars) : UpperChars[k] = c]
    ELSE c

toLowerCase(s) == [k \in 1..Len(s) |-> LowerChar(s[k])]

includes(s, sub) ==
    \E k \in 0..(Len(s) - Len(sub)) : SubSeq(s, k + 1, k + Len(sub)) = sub

startsWith(s, prefix) ==
    Len(s) >= Len(prefix) /\ SubSeq(s, 1, Len(prefix)) = prefix

\* x ?? y on optional values.
Coalesce(o, default) == IF IsDefined(o) THEN o[1] ELSE default

----------------------------------------------------------------------------
\* The inputs: BeforeDownloadRequest values (src/types.ts).

STR_xray == <<"x","r","a","y">>
STR_127_0_0_1 == <<"1","2","7",".","0",".","0",".","1">>
STR_ipv6_loopback == <<":",":","1">>
STR_localhost == <<"l","o","c","a","l","h","o","s","t">>
STR_127_dot == <<"1","2","7",".">>

UserIds ==
    { Undefined,
      Some(<<"a","l","i","c","e">>),
      Some(<<"s","-","X","R","a","y">>),
      Some(<<"x","r","a">>) }

Realms ==
    { Undefined,
      Some(<<"i","n","t","e","r","n","a","l">>),
      Some(<<"X","R","A","Y">>) }

ClientAddresses ==
    { Undefined,
      Some(<<"1","0",".","0",".","0",".","5">>),
      Some(STR_127_0_0_1),
      Some(STR_ipv6_loopback),
      Some(<<"L","o","c","a","l","H","o","s","t">>),
      Some(<<"1","2","7",".","9">>),
      Some(<<"1","0",".","1","2","7",".">>) }

RepoKeys == { Undefined, Some(""), Some("generic-local") }

ArtifactPaths == { Undefined, Some(""), Some("a/b/lib.jar") }

RepoPaths ==
    { Undefined } \cup
    { Some([key |-> k, path |-> p, isRoot |-> r, isFolder |-> f]) :
        k \in RepoKeys, p \in ArtifactPaths, r \in BOOLEAN, f \in BOOLEAN }

DownloadMetadatas ==
    { Undefined } \cup
    { Some([repoPath |-> rp, clientAddress |-> a]) :
        rp \in RepoPaths, a \in ClientAddresses }

UserContexts ==
    { Undefined } \cup
    { Some([id |-> u, realm |-> r]) : u \in UserIds, r \in Realms }

BeforeDownloadRequest ==
    { [metadata |-> m, userContext |-> u] :
        m \in DownloadMetadatas, u \in UserContexts }

\* data.metadata?.repoPath
RepoPathOf(d) ==
    IF IsDefined(d.metadata) THEN d.metadata[1].repoPath ELSE Undefined

\* data.metadata?.repoPath?.key
RepoKeyOf(d) ==
    IF IsDefined(RepoPathOf(d)) THEN RepoPathOf(d)[1].key ELSE Undefined

\* data.metadata?.repoPath?.path
ArtifactPathOf(d) ==
    IF IsDefined(RepoPathOf(d)) THEN RepoPathOf(d)[1].path ELSE Undefined

\* data.metadata?.clientAddress
ClientAddressOf(d) ==
    IF IsDefined(d.metadata) THEN d.metadata[1].clientAddress ELSE Undefined

\* data.userContext?.id
UserIdOf(d) ==
    IF IsDefined(d.userContext) THEN d.userContext[1].id ELSE Undefined

\* data.userContext?.realm
RealmOf(d) ==
    IF IsDefined(d.userContext) THEN d.userContext[1].realm ELSE Undefined

\* !s for an optional string: undefined and '' are falsy.
Falsy(o) == ~IsDefined(o) \/ o[1] = ""

----------------------------------------------------------------------------
\* DownloadStatus and the responses of the handler.

DOWNLOAD_PROCEED == "DOWNLOAD_PROCEED"
DOWNLOAD_STOP == "DOWNLOAD_STOP"
DOWNLOAD_WARN == "DOWNLOAD_WARN"

XRAY_PING_API == "/xray/api/v1/system/ping"
XRAY_ARTIFACT_STATUS_API == "/xray/api/v1/artifact/status"
XRAY_FORCE_REINDEX_API == "/xray/api/v1/forceReindex"

\* A mutant of Response: the status is echoed in a response header.
ResponseEchoStatus(status, text, arg) ==
    [status |-> status, message |-> [text |-> text, arg |-> arg],
     headers |-> {<<"x-rescan-status", status>>}]

\* A message is its template and the value interpolated into it, if any.
Response(status, text, arg) ==
    [status |-> status, message |-> [text |-> text, arg |-> arg], headers |-> {}]

MSG_MISSING == "Unable to validate artifact. Missing repository or path information."
MSG_FOLDER == "Skipping folder/root - scan check only applies to artifacts."
MSG_XRAY == "Allowing Xray indexing request."
MSG_WARN == "Could not check Xray scan status. Xray may be unavailable. Proceeding with warning."
MSG_SCANNED == "Artifact is scanned (status: ${scanStatus}). Proceeding with download."
MSG_TRIGGERED == "Artifact is not scanned. Reindex has been triggered for this artifact. Please try again shortly once the reindex completes."
MSG_MANUAL == "Artifact is not scanned. Could not trigger reindex. Please run \"Reindex existing artifacts\" in Xray for this repo, then try again."
MSG_ERROR == "Error during scan validation: ${errMsg}. Please try again."

----------------------------------------------------------------------------
\* Completions of a function body: it returns a value or throws one.

Return(v) == [type |-> "return", value |-> Some(v), error |-> Undefined]

Throw(e) == [type |-> "throw", value |-> Undefined, error |-> Some(e)]

\* Values a rejected platformHttp promise, or the runtime, can throw.
\*  kind "Error":     an Error object (error instanceof Error), possibly an
\*                    HTTP client error carrying error.response.data;
\*  kind "string":    a thrown primitive, String(error) is the value itself;
\*  kind "nullproto": an object without toString, for which String(error)
\*                    throws a TypeError.
ErrorValue(message, responseData) ==
    [kind |-> "Error", message |-> message, responseData |-> responseData]

TypeError(message) == ErrorValue(message, "none")

ThrownValues ==
    { ErrorValue("connect ECONNREFUSED", b) : b \in {"none", "plain", "circular"} }
    \cup { [kind |-> "string", message |-> "timeout", responseData |-> "none"],
           [kind |-> "nullproto", message |-> "", responseData |-> "none"] }

\* error instanceof Error ? error.message : String(error)
errMsgOf(error) ==
    IF error.kind = "nullproto"
    THEN Throw(TypeError("Cannot convert object to primitive value"))
    ELSE Return(error.message)

\* responseBody ? JSON.stringify(responseBody) : ''
stringifyResponseBody(error) ==
    IF error.responseData = "circular"
    THEN Throw(TypeError("Converting circular structure to JSON"))
    ELSE Return(IF error.responseData = "plain" THEN "{...}" ELSE "")

\* How an awaited platformHttp call settles.
Resolve(response) == [type |-> "resolve", response |-> response, error |-> Undefined]

Reject(error) == [type |-> "reject", response |-> Undefined, error |-> Some(error)]

PingResponses ==
    { Undefined, Some([data |-> Undefined]) } \cup
    { Some([data |-> Some([status |-> s])]) :
        s \in { Undefined, Some("pong"), Some("PONG"), Some("ok") } }

PingOutcomes ==
    { Resolve(r) : r \in PingResponses } \cup { Reject(e) : e \in ThrownValues }

OverallStatuses ==
    { Undefined, Some(""), Some("DONE"), Some("PARTIAL"), Some("done"),
      Some("FAILED"), Some("NOT_SCANNED") }

StatusResponses ==
    { Undefined, Some([data |-> Undefined]),
      Some([data |-> Some([overall |-> Undefined])]) } \cup
    { Some([data |-> Some([overall |-> Some([status |-> s])])]) :
        s \in OverallStatuses }

StatusOutcomes ==
    { Resolve(r) : r \in StatusResponses } \cup { Reject(e) : e \in ThrownValues }

StatusCodes == { Undefined, Some(0), Some(199), Some(200), Some(299), Some(300), Some(500) }

ReindexResponses ==
    { Undefined } \cup
    { Some([status |-> s, statusCode |-> c]) : s \in StatusCodes, c \in StatusCodes }

ReindexOutcomes ==
    { Resolve(r) : r \in ReindexResponses } \cup { Reject(e) : e \in ThrownValues }

----------------------------------------------------------------------------
\* The helpers of src/worker.ts, as functions of how their HTTP call settles.

\* A mutant of MissingIdentity: && in place of ||.
MissingIdentityBoth(repoKey, artifactPath) ==
    Falsy(repoKey) /\ Falsy(artifactPath)

\* !repoKey || !artifactPath
MissingIdentity(repoKey, artifactPath) ==
    Falsy(repoKey) \/ Falsy(artifactPath)

\* A mutant of isXrayIndexingRequest: only the loopback addresses are
\* recognised, the user id and realm tests are dropped.
isXrayIndexingRequestLoopbackOnly(d) ==
    LET clientAddr == toLowerCase(Coalesce(ClientAddressOf(d), <<>>))
    IN  \/ clientAddr = STR_127_0_0_1
        \/ clientAddr = STR_ipv6_loopback
        \/ clientAddr = STR_localhost
        \/ startsWith(clientAddr, STR_127_dot)

\* A mutant of isXrayIndexingRequest: the strings are not lower-cased.
isXrayIndexingRequestCaseSensitive(d) ==
    LET userId == Coalesce(UserIdOf(d), <<>>)
        realm == Coalesce(RealmOf(d), <<>>)
        clientAddr == Coalesce(ClientAddressOf(d), <<>>)
    IN  \/ includes(userId, STR_xray)
        \/ includes(realm, STR_xray)
        \/ clientAddr = STR_127_0_0_1
        \/ clientAddr = STR_ipv6_loopback
        \/ clientAddr = STR_localhost
        \/ startsWith(clientAddr, STR_127_dot)

isXrayIndexingRequest(d) ==
    LET userId == IF IsDefined(UserIdOf(d)) THEN toLowerCase(UserIdOf(d)[1]) ELSE <<>>
        realm == IF IsDefined(RealmOf(d)) THEN toLowerCase(RealmOf(d)[1]) ELSE <<>>
        clientAddr == toLowerCase(Coalesce(ClientAddressOf(d), <<>>))
    IN  \/ includes(userId, STR_xray)
        \/ includes(realm, STR_xray)
        \/ clientAddr = STR_127_0_0_1
        \/ clientAddr = STR_ipv6_loopback
        \/ clientAddr = STR_localhost
        \/ startsWith(clientAddr, STR_127_dot)

\* A mutant of IsFolderOrRoot: the isRoot test is dropped.
IsFolderOnly(d) ==
    IsDefined(RepoPathOf(d)) /\ RepoPathOf(d)[1].isFolder

\* A mutant of IsFolderOrRoot: the Xray test is made before the folder test.
IsFolderOrRootAfterXray(d) ==
    /\ IsDefined(RepoPathOf(d))
    /\ (RepoPathOf(d)[1].isFolder \/ RepoPathOf(d)[1].isRoot)
    /\ ~isXrayIndexingRequest(d)

\* data.metadata?.repoPath?.isFolder || data.metadata?.repoPath?.isRoot
IsFolderOrRoot(d) ==
    IsDefined(RepoPathOf(d))
    /\ (RepoPathOf(d)[1].isFolder \/ RepoPathOf(d)[1].isRoot)

\* response?.data?.status
PingStatusOf(response) ==
    IF IsDefined(response) /\ IsDefined(response[1].data)
    THEN response[1].data[1].status
    ELSE Undefined

\* A mutant of checkXrayAvailable: a failed ping counts as available.
checkXrayAvailableOnError(outcome) ==
    IF outcome.type = "resolve"
    THEN Return(PingStatusOf(outcome.response) = Some("pong"))
    ELSE Return(TRUE)

\* A mutant of checkXrayAvailable: the result of the ping is ignored.
checkXrayAvailableAlways(outcome) == Return(TRUE)

checkXrayAvailable(outcome) ==
    IF outcome.type = "resolve"
    THEN Return(PingStatusOf(outcome.response) = Some("pong"))
    ELSE LET errMsg == errMsgOf(outcome.error[1])
         IN  IF errMsg.type = "throw" THEN errMsg ELSE Return(FALSE)

\* response?.data?.overall?.status
OverallStatusOf(response) ==
    IF /\ IsDefined(response)
       /\ IsDefined(response[1].data)
       /\ IsDefined(response[1].data[1].overall)
    THEN response[1].data[1].overall[1].status
    ELSE Undefined

\* The value null of getArtifactScanStatus's string | null.
Null == Undefined

getArtifactScanStatus(outcome) ==
    IF outcome.type = "resolve"
    THEN IF ~Falsy(OverallStatusOf(outcome.response))
         THEN Return(OverallStatusOf(outcome.response))
         ELSE Return(Null)
    ELSE LET errMsg == errMsgOf(outcome.error[1])
         IN  IF errMsg.type = "throw" THEN errMsg ELSE Return(Null)

\* A mutant of IsScanned: an artifact whose reindex was requested by an
\* earlier call is remembered and let through.
IsScannedOrReindexedBefore(scanStatus) ==
    \/ scanStatus # Null /\ (scanStatus = Some("DONE") \/ scanStatus = Some("PARTIAL"))
    \/ \E k \in 1..Len(calls) : calls[k].url = XRAY_FORCE_REINDEX_API

\* A mutant of IsScanned: every reported status counts as scanned.
IsScannedAnyStatus(scanStatus) ==
    scanStatus # Null

\* A mutant of IsScanned: the null test is inverted.
IsScannedOrNull(scanStatus) ==
    scanStatus = Null \/ (scanStatus = Some("DONE") \/ scanStatus = Some("PARTIAL"))

\* scanStatus !== null && (scanStatus === 'DONE' || scanStatus === 'PARTIAL')
IsScanned(scanStatus) ==
    scanStatus # Null /\ (scanStatus = Some("DONE") \/ scanStatus = Some("PARTIAL"))

\* response?.status ?? response.statusCode ?? response.status
ReindexStatusCodeOf(response) ==
    IF ~IsDefined(response) THEN Undefined
    ELSE IF IsDefined(response[1].status) THEN response[1].status
    ELSE IF IsDefined(response[1].statusCode) THEN response[1].statusCode
    ELSE response[1].status

\* A mutant of triggerForceReindexArtifact: a response without a status code
\* does not count as triggered.
triggerForceReindexArtifactStrict(outcome) ==
    IF outcome.type = "resolve"
    THEN LET statusCode == ReindexStatusCodeOf(outcome.response)
         IN  Return(IsDefined(statusCode) /\ statusCode[1] >= 200)
    ELSE LET errMsg == errMsgOf(outcome.error[1])
             body == stringifyResponseBody(outcome.error[1])
         IN  IF errMsg.type = "throw" THEN errMsg
             ELSE IF body.type = "throw" THEN body
             ELSE Return(FALSE)

triggerForceReindexArtifact(outcome) ==
    IF outcome.type = "resolve"
    THEN LET statusCode == ReindexStatusCodeOf(outcome.response)
         IN  IF IsDefined(statusCode) /\ statusCode[1] >= 200 /\ statusCode[1] < 300
             THEN Return(TRUE)
             ELSE IF ~IsDefined(statusCode) \/ statusCode[1] >= 200
             THEN Return(TRUE)
             ELSE Return(FALSE)
    ELSE LET errMsg == errMsgOf(outcome.error[1])
             body == stringifyResponseBody(outcome.error[1])
         IN  IF errMsg.type = "throw" THEN errMsg
             ELSE IF body.type = "throw" THEN body
             ELSE Return(FALSE)

\* The body of the status query: { repo, path }.
StatusBody(repo, path) == [repo |-> repo, path |-> path]

\* A mutant of ReindexBody: the reindex is scoped to the repository.
ReindexBodyWholeRepo(repo, path) ==
    [artifacts |-> << [repository |-> repo, path |-> Undefined] >>]

\* A mutant of ReindexBody: the path is kept in a variable shared by the
\* invocations, which holds the path of the request that came in last.
ReindexBodySharedPath(repo, path) ==
    LET last == CHOOSE i \in Invocations :
                    /\ IsDefined(data[i])
                    /\ \A j \in Invocations : IsDefined(data[j]) => j <= i
    IN  [artifacts |-> << [repository |-> repo,
                           path |-> ArtifactPathOf(data[last][1])] >>]

\* The body of the reindex call: { artifacts: [{ repository, path }] }.
ReindexBody(repo, path) ==
    [artifacts |-> << [repository |-> repo, path |-> path] >>]

\* A mutant of OuterCatch: the fault is thrown again.
OuterCatchRethrow(error) ==
    [result |-> <<>>, rejected |-> Some(error)]

\* A mutant of OuterCatch: an unexpected fault degrades to a warning.
OuterCatchWarns(error) ==
    [result |-> << Response(DOWNLOAD_WARN, MSG_WARN, Undefined) >>,
     rejected |-> Undefined]

\* The catch block of the handler: what the invocation settles with.
OuterCatch(error) ==
    LET errMsg == errMsgOf(error)
    IN  IF errMsg.type = "throw"
        THEN [result |-> <<>>, rejected |-> errMsg.error]
        ELSE [result |-> << Response(DOWNLOAD_STOP, MSG_ERROR, errMsg.value) >>,
              rejected |-> Undefined]

----------------------------------------------------------------------------
\* The handler (default export of src/worker.ts).

Call(i, method, url, body) ==
    [inv |-> i, method |-> method, url |-> url, body |-> body]

Init ==
    /\ pc = [i \in Invocations |-> "idle"]
    /\ data = [i \in Invocations |-> Undefined]
    /\ pingOutcome = [i \in Invocations |-> Undefined]
    /\ statusOutcome = [i \in Invocations |-> Undefined]
    /\ reindexOutcome = [i \in Invocations |-> Undefined]
    /\ result = [i \in Invocations |-> <<>>]
    /\ rejected = [i \in Invocations |-> Undefined]
    /\ calls = <<>>
    /\ scanner = "unscanned"

\* return { status, message, headers: {} }
Complete(i, response) ==
    /\ result' = [result EXCEPT ![i] = Append(@, response)]
    /\ pc' = [pc EXCEPT ![i] = "done"]
    /\ UNCHANGED rejected

\* A fault thrown inside the try block reaches the catch block.
Caught(i, error) ==
    /\ result' = [result EXCEPT ![i] = @ \o OuterCatch(error).result]
    /\ rejected' = [rejected EXCEPT ![i] = OuterCatch(error).rejected]
    /\ pc' = [pc EXCEPT ![i] = "done"]

\* The platform invokes the handler with request d: the classification runs
\* and, for an applicable request, the liveness probe is sent.
Invoke(i, d) ==
    /\ pc[i] = "idle"
    /\ data' = [data EXCEPT ![i] = Some(d)]
    /\ IF MissingIdentity(RepoKeyOf(d), ArtifactPathOf(d))
       THEN Complete(i, Response(DOWNLOAD_STOP, MSG_MISSING, Undefined))
            /\ UNCHANGED calls
       ELSE IF IsFolderOrRoot(d)
       THEN Complete(i, Response(DOWNLOAD_PROCEED, MSG_FOLDER, Undefined))
            /\ UNCHANGED calls
       ELSE IF isXrayIndexingRequest(d)
       THEN Complete(i, Response(DOWNLOAD_PROCEED, MSG_XRAY, Undefined))
            /\ UNCHANGED calls
       ELSE /\ calls' = Append(calls, Call(i, "GET", XRAY_PING_API, Undefined))
            /\ pc' = [pc EXCEPT ![i] = "awaitPing"]
            /\ UNCHANGED <<result, rejected>>
    /\ UNCHANGED <<pingOutcome, statusOutcome, reindexOutcome>>

\* The liveness probe settles; if Xray is available the status query is sent.
PingSettles(i, outcome) ==
    /\ pc[i] = "awaitPing"
    /\ pingOutcome' = [pingOutcome EXCEPT ![i] = Some(outcome)]
    /\ LET isXrayAvailable == checkXrayAvailable(outcome)
           repoKey == RepoKeyOf(data[i][1])
           artifactPath == ArtifactPathOf(data[i][1])
       IN  IF isXrayAvailable.type = "throw"
           THEN Caught(i, isXrayAvailable.error[1]) /\ UNCHANGED calls
           ELSE IF ~isXrayAvailable.value[1]
           THEN Complete(i, Response(DOWNLOAD_WARN, MSG_WARN, Undefined))
                /\ UNCHANGED calls
           ELSE /\ calls' = Append(calls, Call(i, "POST", XRAY_ARTIFACT_STATUS_API,
                                               Some(StatusBody(repoKey, artifactPath))))
                /\ pc' = [pc EXCEPT ![i] = "awaitStatus"]
                /\ UNCHANGED <<result, rejected>>
    /\ UNCHANGED <<data, statusOutcome, reindexOutcome>>

\* The status query settles; unless the artifact is scanned the reindex of
\* the artifact is requested.
StatusSettles(i, outcome) ==
    /\ pc[i] = "awaitStatus"
    /\ statusOutcome' = [statusOutcome EXCEPT ![i] = Some(outcome)]
    /\ LET scanStatus == getArtifactScanStatus(outcome)
           repoKey == RepoKeyOf(data[i][1])
           artifactPath == ArtifactPathOf(data[i][1])
       IN  IF scanStatus.type = "throw"
           THEN Caught(i, scanStatus.error[1]) /\ UNCHANGED calls
           ELSE IF IsScanned(scanStatus.value[1])
           THEN Complete(i, Response(DOWNLOAD_PROCEED, MSG_SCANNED, scanStatus.value[1]))
                /\ UNCHANGED calls
           ELSE /\ calls' = Append(calls, Call(i, "POST", XRAY_FORCE_REINDEX_API,
                                               Some(ReindexBody(repoKey, artifactPath))))
                /\ pc' = [pc EXCEPT ![i] = "awaitReindex"]
                /\ UNCHANGED <<result, rejected>>
    /\ UNCHANGED <<data, pingOutcome, reindexOutcome>>

\* The reindex call settles and the download is stopped.
ReindexSettles(i, outcome) ==
    /\ pc[i] = "awaitReindex"
    /\ reindexOutcome' = [reindexOutcome EXCEPT ![i] = Some(outcome)]
    /\ LET reindexTriggered == triggerForceReindexArtifact(outcome)
       IN  IF reindexTriggered.type = "throw"
           THEN Caught(i, reindexTriggered.error[1])
           ELSE IF reindexTriggered.value[1]
           THEN Complete(i, Response(DOWNLOAD_STOP, MSG_TRIGGERED, Undefined))
           ELSE Complete(i, Response(DOWNLOAD_STOP, MSG_MANUAL, Undefined))
    /\ UNCHANGED <<data, pingOutcome, statusOutcome, calls>>

\* The boundary makes one call per download attempt; in Spec the attempts
\* do not overlap.
NoOtherInvocation(i) == \A j \in Invocations \ {i} : pc[j] = "idle"

Next ==
    \E i \in Invocations :
        \/ /\ pc[i] = "idle" /\ NoOtherInvocation(i)
           /\ \E d \in BeforeDownloadRequest : Invoke(i, d)
           /\ UNCHANGED scanner
        \/ /\ pc[i] = "awaitPing"
           /\ \E outcome \in PingOutcomes : PingSettles(i, outcome)
           /\ UNCHANGED scanner
        \/ /\ pc[i] = "awaitStatus"
           /\ \E outcome \in StatusOutcomes : StatusSettles(i, outcome)
           /\ UNCHANGED scanner
        \/ /\ pc[i] = "awaitReindex"
           /\ \E outcome \in ReindexOutcomes : ReindexSettles(i, outcome)
           /\ UNCHANGED scanner

Spec == Init /\ [][Next]_vars

\* The same request handled again and again by a scanner whose state does
\* not change: invocation i + 1 is made with the request of invocation i once
\* that one has returned, and each endpoint answers as it answered before.
AnswersAsBefore(i, earlier, outcome) ==
    \A j \in 1..(i - 1) : IsDefined(earlier[j]) => outcome = earlier[j][1]

IdemNext ==
    \E i \in Invocations :
        \/ /\ pc[i] = "idle" /\ i = 1
           /\ \E d \in BeforeDownloadRequest : Invoke(i, d)
           /\ UNCHANGED scanner
        \/ /\ pc[i] = "idle" /\ i > 1 /\ pc[i - 1] = "done"
           /\ Invoke(i, data[i - 1][1])
           /\ UNCHANGED scanner
        \/ /\ pc[i] = "awaitPing"
           /\ \E outcome \in PingOutcomes :
                AnswersAsBefore(i, pingOutcome, outcome) /\ PingSettles(i, outcome)
           /\ UNCHANGED scanner
        \/ /\ pc[i] = "awaitStatus"
           /\ \E outcome \in StatusOutcomes :
                AnswersAsBefore(i, statusOutcome, outcome) /\ StatusSettles(i, outcome)
           /\ UNCHANGED scanner
        \/ /\ pc[i] = "awaitReindex"
           /\ \E outcome \in ReindexOutcomes :
                AnswersAsBefore(i, reindexOutcome, outcome) /\ ReindexSettles(i, outcome)
           /\ UNCHANGED scanner

IdemSpec == Init /\ [][IdemNext]_vars

\* Download attempts handled concurrently: the boundary invokes the handler
\* for each without waiting for the others, and the awaited calls settle in
\* any order.  The requests are user requests for two artifacts of one
\* repository; the scanner answers each call on its own.  Invocations are
\* numbered in their order of arrival.
ConcArtifactPaths == { Some("a/b/lib.jar"), Some("c/d.jar") }

ConcRequests ==
    { [metadata |-> Some([repoPath |-> Some([key |-> Some("generic-local"),
                                             path |-> p,
                                             isRoot |-> FALSE,
                                             isFolder |-> FALSE]),
                          clientAddress |-> Some(<<"1","0",".","0",".","0",".","5">>)]),
       userContext |-> Some([id |-> u, realm |-> Undefined])] :
        p \in ConcArtifactPaths,
        u \in { Some(<<"a","l","i","c","e">>) } }

ConcPingOutcomes ==
    { Resolve(Some([data |-> Some([status |-> Some("pong")])])) }

ConcStatusOutcomes ==
    { Resolve(Some([data |-> Some([overall |-> Some([status |-> s])])])) :
        s \in { Some("DONE"), Some("NOT_SCANNED") } }
    \cup { Reject(ErrorValue("connect ECONNREFUSED", "none")) }

ConcReindexOutcomes ==
    { Resolve(Some([status |-> Some(200), statusCode |-> Undefined])),
      Reject(ErrorValue("connect ECONNREFUSED", "plain")) }

ConcNext ==
    \E i \in Invocations :
        \/ /\ pc[i] = "idle"
           /\ \A j \in 1..(i - 1) : pc[j] # "idle"
           /\ \E d \in ConcRequests : Invoke(i, d)
           /\ UNCHANGED scanner
        \/ /\ pc[i] = "awaitPing"
           /\ \E outcome \in ConcPingOutcomes : PingSettles(i, outcome)
           /\ UNCHANGED scanner
        \/ /\ pc[i] = "awaitStatus"
           /\ \E outcome \in ConcStatusOutcomes : StatusSettles(i, outcome)
           /\ UNCHANGED scanner
        \/ /\ pc[i] = "awaitReindex"
           /\ \E outcome \in ConcReindexOutcomes : ReindexSettles(i, outcome)
           /\ UNCHANGED scanner

ConcSpec == Init /\ [][ConcNext]_vars

\* The retry loop of the README: a user asks for an artifact that Xray
\* dropped from its index, the worker triggers the reindex and stops the
\* download, Xray downloads the artifact to index it, and the user retries.
\* The scanner is alive: it answers the ping with "pong", reports DONE once
\* it has scanned the artifact and NOT_SCANNED before, and accepts a reindex
\* request with 200.  Slot User holds the user's current attempt and slot
\* XrayFetch the download Xray makes to index the artifact.
User == 1

XrayFetch == 2

RepoPathOfArtifact ==
    Some([key |-> Some("generic-local"), path |-> Some("a/b/lib.jar"),
          isRoot |-> FALSE, isFolder |-> FALSE])

UserRequests ==
    { [metadata |-> Some([repoPath |-> RepoPathOfArtifact, clientAddress |-> a]),
       userContext |-> Some([id |-> u, realm |-> r])] :
        a \in { Undefined, Some(<<"1","0",".","0",".","0",".","5">>) },
        u \in { Some(<<"a","l","i","c","e">>), Some(<<"x","r","a">>) },
        r \in { Undefined, Some(<<"i","n","t","e","r","n","a","l">>) } }

XrayRequests ==
    { [metadata |-> Some([repoPath |-> RepoPathOfArtifact, clientAddress |-> a]),
       userContext |-> Some([id |-> Some(<<"s","-","X","R","a","y">>), realm |-> r])] :
        a \in { Some(<<"1","0",".","0",".","0",".","5">>), Some(STR_127_0_0_1) },
        r \in { Undefined, Some(<<"X","R","A","Y">>) } }

PongOutcome == Resolve(Some([data |-> Some([status |-> Some("pong")])]))

ScannerStatusOutcome ==
    Resolve(Some([data |-> Some([overall |-> Some([status |->
        IF scanner = "scanned" THEN Some("DONE") ELSE Some("NOT_SCANNED")])])]))

ReindexAcceptedOutcome == Resolve(Some([status |-> Some(200), statusCode |-> Undefined]))

\* The invocation has returned and everything it held is discarded.
Retire(i) ==
    /\ pc[i] = "done"
    /\ pc' = [pc EXCEPT ![i] = "idle"]
    /\ data' = [data EXCEPT ![i] = Undefined]
    /\ pingOutcome' = [pingOutcome EXCEPT ![i] = Undefined]
    /\ statusOutcome' = [statusOutcome EXCEPT ![i] = Undefined]
    /\ reindexOutcome' = [reindexOutcome EXCEPT ![i] = Undefined]
    /\ result' = [result EXCEPT ![i] = <<>>]
    /\ rejected' = [rejected EXCEPT ![i] = Undefined]
    /\ calls' = SelectSeq(calls, LAMBDA c : c.inv # i)

UserRequestsArtifact ==
    /\ pc[User] = "idle"
    /\ \E d \in UserRequests : Invoke(User, d)
    /\ UNCHANGED scanner

UserGetsAnswer ==
    /\ Retire(User)
    /\ UNCHANGED scanner

\* Xray, asked to reindex the artifact, downloads it.
XrayFetchesArtifact ==
    /\ scanner = "queued"
    /\ pc[XrayFetch] = "idle"
    /\ \E d \in XrayRequests : Invoke(XrayFetch, d)
    /\ UNCHANGED scanner

\* Xray got the artifact and scans it; a stopped download leaves it queued.
XrayFetchAnswered ==
    /\ pc[XrayFetch] = "done"
    /\ Retire(XrayFetch)
    /\ scanner' = IF /\ Len(result[XrayFetch]) = 1
                     /\ result[XrayFetch][1].status \in {DOWNLOAD_PROCEED, DOWNLOAD_WARN}
                  THEN "scanned"
                  ELSE scanner

PingAnswered(i) ==
    /\ pc[i] = "awaitPing"
    /\ PingSettles(i, PongOutcome)
    /\ UNCHANGED scanner

StatusAnswered(i) ==
    /\ pc[i] = "awaitStatus"
    /\ StatusSettles(i, ScannerStatusOutcome)
    /\ UNCHANGED scanner

ReindexAccepted(i) ==
    /\ pc[i] = "awaitReindex"
    /\ ReindexSettles(i, ReindexAcceptedOutcome)
    /\ scanner' = IF scanner = "unscanned" THEN "queued" ELSE scanner

RetryNext ==
    \/ UserRequestsArtifact
    \/ UserGetsAnswer
    \/ XrayFetchesArtifact
    \/ XrayFetchAnswered
    \/ \E i \in {User, XrayFetch} : PingAnswered(i)
    \/ \E i \in {User, XrayFetch} : StatusAnswered(i)
    \/ \E i \in {User, XrayFetch} : ReindexAccepted(i)

\* Every awaited call is answered, Xray does fetch and scan what it was asked
\* to reindex, and the user keeps retrying.
RetryFairness ==
    /\ WF_vars(UserRequestsArtifact)
    /\ WF_vars(UserGetsAnswer)
    /\ WF_vars(XrayFetchesArtifact)
    /\ WF_vars(XrayFetchAnswered)
    /\ \A i \in {User, XrayFetch} :
          /\ WF_vars(PingAnswered(i))
          /\ WF_vars(StatusAnswered(i))
          /\ WF_vars(ReindexAccepted(i))

RetrySpec == Init /\ [][RetryNext]_vars /\ RetryFairness

----------------------------------------------------------------------------
\* Vocabulary of the properties, stated on the request and on what the
\* platform HTTP client recorded, independently of the handler's own tests.

Started(i) == IsDefined(data[i])

Done(i) == pc[i] = "done"

Req(i) == data[i][1]

\* The calls invocation i made to the endpoint url.
CallsTo(i, url) == { k \in 1..Len(calls) : calls[k].inv = i /\ calls[k].url = url }

NoScannerCalls(i) == \A k \in 1..Len(calls) : calls[k].inv # i

\* Invocation i returned exactly one response, with this status.
Disposition(i, status) ==
    /\ Len(result[i]) = 1
    /\ result[i][1].status = status
    /\ rejected[i] = Undefined

DispositionWith(i, status, text) ==
    Disposition(i, status) /\ result[i][1].message.text = text

KeyAndPathPresent(d) ==
    /\ IsDefined(RepoKeyOf(d)) /\ RepoKeyOf(d)[1] # ""
    /\ IsDefined(ArtifactPathOf(d)) /\ ArtifactPathOf(d)[1] # ""

FolderOrRoot(d) ==
    IsDefined(RepoPathOf(d))
    /\ (RepoPathOf(d)[1].isFolder \/ RepoPathOf(d)[1].isRoot)

ContainsXrayAnyCase(o) ==
    IsDefined(o) /\ includes(toLowerCase(o[1]), STR_xray)

\* The originator named by the recognition rule as written: identity or
\* realm containing "xray" in any case, or one of the loopback addresses.
XrayOrLoopbackOriginator(d) ==
    \/ ContainsXrayAnyCase(UserIdOf(d))
    \/ ContainsXrayAnyCase(RealmOf(d))
    \/ /\ IsDefined(ClientAddressOf(d))
       /\ \/ ClientAddressOf(d)[1] \in {STR_127_0_0_1, STR_ipv6_loopback, STR_localhost}
          \/ startsWith(ClientAddressOf(d)[1], STR_127_dot)

\* Scanner-self-traffic, the address compared case-insensitively as well.
ScannerSelfTraffic(d) ==
    \/ XrayOrLoopbackOriginator(d)
    \/ /\ IsDefined(ClientAddressOf(d))
       /\ toLowerCase(ClientAddressOf(d)[1]) = STR_localhost

Applicable(d) ==
    KeyAndPathPresent(d) /\ ~FolderOrRoot(d) /\ ~ScannerSelfTraffic(d)

PingSettled(i) == IsDefined(pingOutcome[i])

PingReturnedPong(i) ==
    /\ PingSettled(i)
    /\ pingOutcome[i][1].type = "resolve"
    /\ PingStatusOf(pingOutcome[i][1].response) = Some("pong")

\* An ordinary failure of a call (network error, non-2xx, timeout): the
\* client rejects with an Error or with a message.
OrdinaryFailure(outcome) ==
    /\ outcome.type = "reject"
    /\ outcome.error[1].kind \in {"Error", "string"}

StatusSettled(i) == IsDefined(statusOutcome[i])

\* The status the status query returned, if it returned one.
ReturnedStatus(i) ==
    IF StatusSettled(i) /\ statusOutcome[i][1].type = "resolve"
    THEN OverallStatusOf(statusOutcome[i][1].response)
    ELSE Undefined

StatusReturnedScanned(i) == ReturnedStatus(i) \in {Some("DONE"), Some("PARTIAL")}

\* A concrete status value other than DONE and PARTIAL.
StatusReturnedUnscanned(i) ==
    /\ IsDefined(ReturnedStatus(i))
    /\ ReturnedStatus(i)[1] # ""
    /\ ~StatusReturnedScanned(i)

\* The status call threw, or its payload has no recognisable overall status.
StatusUnknown(i) ==
    /\ StatusSettled(i)
    /\ ~IsDefined(ReturnedStatus(i)) \/ ReturnedStatus(i)[1] = ""

ReindexSettled(i) == IsDefined(reindexOutcome[i])

----------------------------------------------------------------------------
\* C1: for an applicable request the handler returns DOWNLOAD_PROCEED only if
\* in that invocation the ping returned "pong" and the status query returned
\* exactly DONE or PARTIAL.
C1_ProceedOnlyIfScanned ==
    \A i \in Invocations :
        (Started(i) /\ Applicable(Req(i)) /\ Done(i)
            /\ Disposition(i, DOWNLOAD_PROCEED))
        => (PingReturnedPong(i) /\ StatusReturnedScanned(i))

C1_Witness ==
    \E i \in Invocations :
        /\ Started(i) /\ Applicable(Req(i)) /\ Done(i)
        /\ DispositionWith(i, DOWNLOAD_PROCEED, MSG_SCANNED)
        /\ ReturnedStatus(i) = Some("PARTIAL")

\* C2: a request missing repository key or path is stopped whatever its other
\* fields are, and no liveness, status or reindex call is made.
C2_MissingIdentityStops ==
    \A i \in Invocations :
        (Started(i) /\ ~KeyAndPathPresent(Req(i)))
        => /\ Done(i)
           /\ DispositionWith(i, DOWNLOAD_STOP, MSG_MISSING)
           /\ NoScannerCalls(i)

C2_Witness ==
    \E i \in Invocations :
        /\ Started(i) /\ Done(i)
        /\ ~IsDefined(ArtifactPathOf(Req(i))) /\ IsDefined(RepoKeyOf(Req(i)))
        /\ RepoKeyOf(Req(i))[1] # ""
        /\ FolderOrRoot(Req(i)) /\ ScannerSelfTraffic(Req(i))
        /\ Disposition(i, DOWNLOAD_STOP)

\* C3 as stated: every request with isFolder or isRoot true is answered
\* Proceed and makes no scanning-service call.
C3_Original ==
    \A i \in Invocations :
        (Started(i) /\ FolderOrRoot(Req(i)))
        => (Done(i) /\ Disposition(i, DOWNLOAD_PROCEED) /\ NoScannerCalls(i))

\* C3 (amended): a request with repository key and path present and isFolder
\* or isRoot true is answered Proceed and makes no scanning-service call.
C3_FolderOrRootProceeds ==
    \A i \in Invocations :
        (Started(i) /\ KeyAndPathPresent(Req(i)) /\ FolderOrRoot(Req(i)))
        => /\ Done(i)
           /\ DispositionWith(i, DOWNLOAD_PROCEED, MSG_FOLDER)
           /\ NoScannerCalls(i)

C3_Witness ==
    \E i \in Invocations :
        /\ Started(i) /\ Done(i) /\ KeyAndPathPresent(Req(i))
        /\ RepoPathOf(Req(i))[1].isRoot /\ ~RepoPathOf(Req(i))[1].isFolder
        /\ ~ScannerSelfTraffic(Req(i))
        /\ Disposition(i, DOWNLOAD_PROCEED)

C5_LivenessFailureWarns ==
    \A i \in Invocations :
        (/\ Started(i) /\ Applicable(Req(i)) /\ PingSettled(i)
         /\ \/ pingOutcome[i][1].type = "resolve" /\ ~PingReturnedPong(i)
            \/ OrdinaryFailure(pingOutcome[i][1]))
        => /\ Done(i)
           /\ DispositionWith(i, DOWNLOAD_WARN, MSG_WARN)
           /\ CallsTo(i, XRAY_ARTIFACT_STATUS_API) = {}
           /\ CallsTo(i, XRAY_FORCE_REINDEX_API) = {}
           /\ Cardinality(CallsTo(i, XRAY_PING_API)) = 1

C5_Witness ==
    \E i \in Invocations :
        /\ Started(i) /\ Applicable(Req(i)) /\ PingSettled(i)
        /\ OrdinaryFailure(pingOutcome[i][1])
        /\ Disposition(i, DOWNLOAD_WARN)

\* C6: for an applicable request where the ping succeeds and the status query
\* returns a concrete status other than DONE or PARTIAL, the reindex endpoint
\* is called exactly once, with a one-element artifact list equal to the
\* request's (repository key, path), and the answer is Stop.
C6_UnscannedReindexesOnce ==
    \A i \in Invocations :
        (Started(i) /\ Applicable(Req(i)) /\ PingReturnedPong(i)
            /\ StatusReturnedUnscanned(i))
        => /\ Cardinality(CallsTo(i, XRAY_FORCE_REINDEX_API)) = 1
           /\ \A k \in CallsTo(i, XRAY_FORCE_REINDEX_API) :
                /\ calls[k].method = "POST"
                /\ Len(calls[k].body[1].artifacts) = 1
                /\ calls[k].body[1].artifacts[1] =
                      [repository |-> RepoKeyOf(Req(i)),
                       path |-> ArtifactPathOf(Req(i))]
           /\ ReindexSettled(i) => Done(i)
           /\ Done(i) => Disposition(i, DOWNLOAD_STOP)

C6_Witness ==
    \E i \in Invocations :
        /\ Started(i) /\ Applicable(Req(i)) /\ PingReturnedPong(i)
        /\ ReturnedStatus(i) = Some("NOT_SCANNED")
        /\ Done(i) /\ Disposition(i, DOWNLOAD_STOP)

\* The reindex call returned this status code range.
ReindexReturned2xx(i) ==
    /\ ReindexSettled(i) /\ reindexOutcome[i][1].type = "resolve"
    /\ IsDefined(ReindexStatusCodeOf(reindexOutcome[i][1].response))
    /\ ReindexStatusCodeOf(reindexOutcome[i][1].response)[1] >= 200
    /\ ReindexStatusCodeOf(reindexOutcome[i][1].response)[1] < 300

ReindexReturnedNon2xx(i) ==
    /\ ReindexSettled(i) /\ reindexOutcome[i][1].type = "resolve"
    /\ IsDefined(ReindexStatusCodeOf(reindexOutcome[i][1].response))
    /\ ~ReindexReturned2xx(i)

\* The reindex call threw an ordinary error with printable diagnostics.
ReindexThrew(i) ==
    /\ ReindexSettled(i) /\ OrdinaryFailure(reindexOutcome[i][1])
    /\ reindexOutcome[i][1].error[1].responseData # "circular"

\* C7: when the reindex call returns a 2xx status the answer is Stop with the
\* "reindex has been triggered" message; when it returns a non-2xx status or
\* throws, the answer is Stop with the "could not trigger reindex" message.
C7_ReindexOutcomeMessage ==
    \A i \in Invocations :
        /\ ReindexReturned2xx(i)
            => (Done(i) /\ DispositionWith(i, DOWNLOAD_STOP, MSG_TRIGGERED))
        /\ (ReindexReturnedNon2xx(i) \/ ReindexThrew(i))
            => (Done(i) /\ DispositionWith(i, DOWNLOAD_STOP, MSG_MANUAL))

\* C8: for an applicable request where the ping succeeds but the status call
\* throws or returns no recognisable overall status, the answer is Stop and
\* never ProceedWithWarning.
C8_StatusFailureStops ==
    \A i \in Invocations :
        (Started(i) /\ Applicable(Req(i)) /\ PingReturnedPong(i)
            /\ StatusUnknown(i))
        => /\ Done(i) => Disposition(i, DOWNLOAD_STOP)
           /\ \A k \in 1..Len(result[i]) : result[i][k].status = DOWNLOAD_STOP

C8_Witness ==
    \E i \in Invocations :
        /\ Started(i) /\ Applicable(Req(i)) /\ PingReturnedPong(i)
        /\ StatusSettled(i) /\ statusOutcome[i][1].type = "reject"
        /\ Done(i) /\ Disposition(i, DOWNLOAD_STOP)

\* C9: the reindex trigger is invoked only when the status query succeeded
\* with a concrete value other than DONE/PARTIAL and the request is not
\* exempt; when the status query threw or returned no recognisable status,
\* no reindex call is made.
C9_ReindexOnlyWhenUnscanned ==
    \A i \in Invocations :
        CallsTo(i, XRAY_FORCE_REINDEX_API) # {}
        => (Started(i) /\ Applicable(Req(i)) /\ StatusReturnedUnscanned(i))

\* The fault that leaves a helper of invocation i uncaught, if any: the
\* helper's own catch block faults while it formats the diagnostics.
EscapedFault(i) ==
    IF \E o \in {pingOutcome[i], statusOutcome[i], reindexOutcome[i]} :
          IsDefined(o) /\ o[1].type = "reject" /\ o[1].error[1].kind = "nullproto"
    THEN Some("Cannot convert object to primitive value")
    ELSE IF /\ ReindexSettled(i) /\ reindexOutcome[i][1].type = "reject"
            /\ reindexOutcome[i][1].error[1].responseData = "circular"
    THEN Some("Converting circular structure to JSON")
    ELSE Undefined

SomeCallFailed(i) ==
    \E o \in {pingOutcome[i], statusOutcome[i], reindexOutcome[i]} :
        IsDefined(o) /\ o[1].type = "reject"

\* The number of calls of invocation i that have settled.
SettledCalls(i) ==
    Cardinality({ s \in {"ping", "status", "reindex"} :
        \/ s = "ping" /\ PingSettled(i)
        \/ s = "status" /\ StatusSettled(i)
        \/ s = "reindex" /\ ReindexSettled(i) })

\* Exactly one well-formed disposition once done, none before, no fault out.
OneWellFormedDisposition(i) ==
    /\ rejected[i] = Undefined
    /\ Done(i) => /\ Len(result[i]) = 1
                  /\ result[i][1].status \in
                        {DOWNLOAD_PROCEED, DOWNLOAD_WARN, DOWNLOAD_STOP}
    /\ ~Done(i) => /\ result[i] = <<>>
                   /\ Started(i) =>
                        Cardinality({k \in 1..Len(calls) : calls[k].inv = i})
                            = SettledCalls(i) + 1
    /\ Done(i) => Cardinality({k \in 1..Len(calls) : calls[k].inv = i})
                      = SettledCalls(i)

\* C10 as stated: every invocation ends with exactly one well-formed
\* disposition, and any fault raised during liveness, status resolution or
\* remediation is converted to Stop with the fault's message included.
C10_Original ==
    \A i \in Invocations :
        /\ OneWellFormedDisposition(i)
        /\ (Done(i) /\ SomeCallFailed(i))
            => /\ DispositionWith(i, DOWNLOAD_STOP, MSG_ERROR)
               /\ IsDefined(result[i][1].message.arg)

\* C10 (amended): every invocation ends with exactly one well-formed
\* disposition in {Proceed, ProceedWithWarning, Stop} as soon as its last
\* call has settled; a fault that the liveness, status or reindex helper does
\* not absorb itself is caught by the handler and converted to Stop with the
\* fault's message included, and no fault leaves the handler.
C10_FaultsBecomeStop ==
    \A i \in Invocations :
        /\ OneWellFormedDisposition(i)
        /\ IsDefined(EscapedFault(i))
            => /\ Done(i)
               /\ DispositionWith(i, DOWNLOAD_STOP, MSG_ERROR)
               /\ result[i][1].message.arg = EscapedFault(i)

C10_Witness ==
    \E i \in Invocations :
        /\ Done(i) /\ StatusSettled(i)
        /\ statusOutcome[i][1].type = "reject"
        /\ statusOutcome[i][1].error[1].kind = "nullproto"
        /\ DispositionWith(i, DOWNLOAD_STOP, MSG_ERROR)
        /\ result[i][1].message.arg = Some("Cannot convert object to primitive value")

----------------------------------------------------------------------------
\* The endpoints invocation i called, in the order of the calls.
CallUrlsOf(i) ==
    LET mine == SelectSeq(calls, LAMBDA c : c.inv = i)
    IN  [k \in 1..Len(mine) |-> mine[k].url]

\* C13: within one invocation the calls are sequential in the order ping,
\* status, reindex: the status call is issued only after the ping completed
\* successfully, the reindex call only after the status call completed, at
\* most one call is outstanding, and each endpoint is called at most once.
C13_CallsSequential ==
    \A i \in Invocations :
        /\ CallUrlsOf(i) \in
              { <<>>,
                <<XRAY_PING_API>>,
                <<XRAY_PING_API, XRAY_ARTIFACT_STATUS_API>>,
                <<XRAY_PING_API, XRAY_ARTIFACT_STATUS_API, XRAY_FORCE_REINDEX_API>> }
        /\ Len(CallUrlsOf(i)) >= 2 => PingReturnedPong(i)
        /\ Len(CallUrlsOf(i)) >= 3 => StatusSettled(i)
        /\ Len(CallUrlsOf(i)) <= SettledCalls(i) + 1
        /\ StatusSettled(i) => PingSettled(i)
        /\ ReindexSettled(i) => StatusSettled(i)

C13_Witness ==
    \E i \in Invocations :
        /\ Done(i) /\ ReindexSettled(i)
        /\ Len(CallUrlsOf(i)) = 3 /\ SettledCalls(i) = 3

\* C14: a reindex response whose status code is in 200-299, or that has no
\* status code, counts as Triggered; a thrown transport error, or a response
\* with a status code below 200, counts as Failed.
C14_RemediationOutcome ==
    \A i \in Invocations :
        /\ (/\ ReindexSettled(i) /\ reindexOutcome[i][1].type = "resolve"
            /\ \/ ReindexReturned2xx(i)
               \/ ~IsDefined(ReindexStatusCodeOf(reindexOutcome[i][1].response)))
            => (Done(i) /\ DispositionWith(i, DOWNLOAD_STOP, MSG_TRIGGERED))
        /\ (\/ ReindexThrew(i)
            \/ /\ ReindexReturnedNon2xx(i)
               /\ ReindexStatusCodeOf(reindexOutcome[i][1].response)[1] < 200)
            => (Done(i) /\ DispositionWith(i, DOWNLOAD_STOP, MSG_MANUAL))

C14_Witness ==
    \E i \in Invocations :
        /\ ReindexSettled(i) /\ reindexOutcome[i][1].type = "resolve"
        /\ IsDefined(reindexOutcome[i][1].response)
        /\ ~IsDefined(ReindexStatusCodeOf(reindexOutcome[i][1].response))
        /\ DispositionWith(i, DOWNLOAD_STOP, MSG_TRIGGERED)

\* C15: a ProceedWithWarning disposition implies that the request was
\* applicable, that the ping was called exactly once and did not return
\* "pong" (or failed), and that neither the status nor the reindex endpoint
\* was called.
C15_OnlyLivenessFailureWarns ==
    \A i \in Invocations :
        (\E k \in 1..Len(result[i]) : result[i][k].status = DOWNLOAD_WARN)
        => /\ Started(i) /\ Applicable(Req(i))
           /\ Cardinality(CallsTo(i, XRAY_PING_API)) = 1
           /\ PingSettled(i) /\ ~PingReturnedPong(i)
           /\ CallsTo(i, XRAY_ARTIFACT_STATUS_API) = {}
           /\ CallsTo(i, XRAY_FORCE_REINDEX_API) = {}

C15_Witness ==
    \E i \in Invocations :
        /\ Done(i) /\ Disposition(i, DOWNLOAD_WARN)
        /\ pingOutcome[i][1].type = "resolve"
        /\ PingStatusOf(pingOutcome[i][1].response) = Some("PONG")

\* C17: the missing-identity check comes before the folder/root check, which
\* comes before the scanner-self-traffic check, which comes before any
\* scanning-service call: a request gets the disposition of the first of
\* these conditions it satisfies.
C17_ClassificationPrecedence ==
    \A i \in Invocations :
        Started(i) =>
            IF ~KeyAndPathPresent(Req(i))
            THEN DispositionWith(i, DOWNLOAD_STOP, MSG_MISSING) /\ NoScannerCalls(i)
            ELSE IF FolderOrRoot(Req(i))
            THEN DispositionWith(i, DOWNLOAD_PROCEED, MSG_FOLDER) /\ NoScannerCalls(i)
            ELSE IF ScannerSelfTraffic(Req(i))
            THEN DispositionWith(i, DOWNLOAD_PROCEED, MSG_XRAY) /\ NoScannerCalls(i)
            ELSE Len(CallUrlsOf(i)) >= 1 /\ CallUrlsOf(i)[1] = XRAY_PING_API

C17_Witness ==
    \E i \in Invocations :
        /\ Started(i) /\ KeyAndPathPresent(Req(i))
        /\ FolderOrRoot(Req(i)) /\ ScannerSelfTraffic(Req(i))
        /\ DispositionWith(i, DOWNLOAD_PROCEED, MSG_FOLDER)

\* C18: every disposition the handler returns, the fault fallback included,
\* carries an empty set of response headers and a non-empty message.
C18_EmptyHeadersAndMessage ==
    \A i \in Invocations :
        \A k \in 1..Len(result[i]) :
            /\ result[i][k].headers = {}
            /\ result[i][k].message.text # ""

C18_Witness ==
    \E i \in Invocations :
        /\ Done(i) /\ ReindexSettled(i)
        /\ reindexOutcome[i][1].type = "reject"
        /\ reindexOutcome[i][1].error[1].responseData = "circular"
        /\ DispositionWith(i, DOWNLOAD_STOP, MSG_ERROR)
        /\ result[i][1].headers = {}

UnscannedInvocations ==
    { i \in Invocations :
        /\ Started(i) /\ PingReturnedPong(i) /\ StatusReturnedUnscanned(i)
        /\ Applicable(Req(i)) }

\* C16: concurrent invocations do not interfere: the disposition of each
\* depends only on its own request and the responses to its own calls, each
\* request for an unscanned artifact issues exactly one reindex call scoped
\* to its own (repository, path), and these requests make as many reindex
\* calls as there are of them, also when they are for the same artifact.
C16_NoInterference ==
    LET unscanned == UnscannedInvocations
        reindexCalls == { k \in 1..Len(calls) :
                            calls[k].url = XRAY_FORCE_REINDEX_API }
    IN  /\ \A i, j \in Invocations :
              (/\ Done(i) /\ Done(j) /\ Req(i) = Req(j)
               /\ pingOutcome[i] = pingOutcome[j]
               /\ statusOutcome[i] = statusOutcome[j]
               /\ reindexOutcome[i] = reindexOutcome[j])
              => result[i] = result[j]
        /\ \A i \in unscanned :
              /\ Cardinality({ k \in reindexCalls : calls[k].inv = i }) = 1
              /\ \A k \in reindexCalls :
                    calls[k].inv = i =>
                        calls[k].body[1].artifacts =
                            << [repository |-> RepoKeyOf(Req(i)),
                                path |-> ArtifactPathOf(Req(i))] >>
              /\ Done(i) => Disposition(i, DOWNLOAD_STOP)
        /\ Cardinality({ k \in reindexCalls : calls[k].inv \in unscanned })
              = Cardinality(unscanned)

\* Two overlapping invocations for different artifacts, both unscanned, the
\* second one invoked and answered while the first awaited its status query.
C16_Witness ==
    \E i, j \in Invocations :
        /\ i # j /\ {i, j} \subseteq UnscannedInvocations
        /\ ArtifactPathOf(Req(i)) # ArtifactPathOf(Req(j))
        /\ Done(i) /\ Done(j)
        /\ \E a \in CallsTo(i, XRAY_PING_API), b \in CallsTo(j, XRAY_PING_API),
              c \in CallsTo(j, XRAY_FORCE_REINDEX_API),
              d \in CallsTo(i, XRAY_FORCE_REINDEX_API) :
                a < b /\ b < c /\ c < d

\* C12: after a user request for an unscanned artifact is answered Stop with
\* the reindex triggered, Xray's own fetch of that artifact is always
\* answered Proceed, without any scanning-service call and whatever the scan
\* status is, so that a later retry of the user is eventually answered
\* Proceed.
C12_RetryEventuallyProceeds ==
    /\ [](Started(XrayFetch)
            => /\ DispositionWith(XrayFetch, DOWNLOAD_PROCEED, MSG_XRAY)
               /\ NoScannerCalls(XrayFetch))
    /\ DispositionWith(User, DOWNLOAD_STOP, MSG_TRIGGERED)
          ~> DispositionWith(User, DOWNLOAD_PROCEED, MSG_SCANNED)

C12_Witness ==
    /\ scanner = "scanned"
    /\ Started(User) /\ Applicable(Req(User))
    /\ DispositionWith(User, DOWNLOAD_PROCEED, MSG_SCANNED)
    /\ ReturnedStatus(User) = Some("DONE")

====
